---- MODULE Spec2Model ----
(***************************************************************************)
(* Model of the schema reconciliation engine of events-validator           *)
(* (streamlit_ev/app/helpers/updater.py and its callers).                  *)
(*                                                                         *)
(* Python values are tagged records [k, s, n]:                             *)
(*   k = "None"              the value None (also the result of dict.get   *)
(*                           on a missing key)                             *)
(*   k = "str",   s = chars  a str, spelled as a sequence of characters    *)
(*   k = "int",   n = v      an int                                        *)
(*   k = "float", n = v*Scale  a finite float, in fixed point              *)
(*   k = "bool",  n = 0/1    False / True                                  *)
(*   k = "nan"               the float NaN                                 *)
(* Python dicts are functions from key names to values; a missing key is   *)
(* a key outside the DOMAIN.                                               *)
(***************************************************************************)
EXTENDS Integers, Sequences, FiniteSets, TLC

\* ------------------------------------------------------------------ bounds

\* Decimal digits kept after the point by the fixed-point floats.
FracDigits == 2

\* Number of nested field names an array parameter can draw from.
MaxNested == 2

RECURSIVE Pow10(_)
Pow10(e) == IF e = 0 THEN 1 ELSE 10 * Pow10(e - 1)

Scale == Pow10(FracDigits)

\* ------------------------------------------------------------ Python values

PyNone == [k |-> "None", s |-> <<>>, n |-> 0]
PyStr(chars) == [k |-> "str", s |-> chars, n |-> 0]
PyInt(v) == [k |-> "int", s |-> <<>>, n |-> v]
PyFloat(scaled) == [k |-> "float", s |-> <<>>, n |-> scaled]
PyBool(b) == [k |-> "bool", s |-> <<>>, n |-> IF b THEN 1 ELSE 0]
PyNaN == [k |-> "nan", s |-> <<>>, n |-> 0]
\* A list; items holds its elements ([] is PyList(<<>>)).
PyList(items) == [k |-> "list", s |-> items, n |-> 0]

IsStr(v) == v.k = "str"
IsNumeric(v) == v.k \in {"int", "float", "bool"}

\* The value of a numeric in units of 1/Scale.
Scaled(v) == IF v.k = "float" THEN v.n ELSE v.n * Scale

\* Python's ==  on scalars: numbers (bool included) compare by value, NaN
\* equals nothing, a str equals only the same str, None only None.
PyEq(a, b) ==
    IF a.k = "nan" \/ b.k = "nan" THEN FALSE
    ELSE IF IsNumeric(a) /\ IsNumeric(b) THEN Scaled(a) = Scaled(b)
    ELSE IF IsStr(a) /\ IsStr(b) THEN a.s = b.s
    ELSE IF a.k = "list" /\ b.k = "list" THEN a.s = b.s
    ELSE a.k = "None" /\ b.k = "None"

\* Python's truthiness of a scalar (if x:).
Truthy(v) ==
    CASE v.k = "None" -> FALSE
      [] v.k = "str" -> v.s # <<>>
      [] v.k = "list" -> v.s # <<>>
      [] v.k = "nan" -> TRUE
      [] OTHER -> v.n # 0

\* dict.get(key) and dict.get(key, default) on a dict of scalars.
Get(d, key) == IF key \in DOMAIN d THEN d[key] ELSE PyNone
GetOr(d, key, default) == IF key \in DOMAIN d THEN d[key] ELSE default

\* ------------------------------------------------------------------ strings

Digits == {"0", "1", "2", "3", "4", "5", "6", "7", "8", "9"}

DigitVal(c) ==
    CASE c = "0" -> 0 [] c = "1" -> 1 [] c = "2" -> 2 [] c = "3" -> 3
      [] c = "4" -> 4 [] c = "5" -> 5 [] c = "6" -> 6 [] c = "7" -> 7
      [] c = "8" -> 8 [] c = "9" -> 9

\* str.lower() of one character.
LowerChar(c) ==
    CASE c = "A" -> "a" [] c = "B" -> "b" [] c = "C" -> "c" [] c = "D" -> "d"
      [] c = "E" -> "e" [] c = "F" -> "f" [] c = "G" -> "g" [] c = "H" -> "h"
      [] c = "I" -> "i" [] c = "J" -> "j" [] c = "K" -> "k" [] c = "L" -> "l"
      [] c = "M" -> "m" [] c = "N" -> "n" [] c = "O" -> "o" [] c = "P" -> "p"
      [] c = "Q" -> "q" [] c = "R" -> "r" [] c = "S" -> "s" [] c = "T" -> "t"
      [] c = "U" -> "u" [] c = "V" -> "v" [] c = "W" -> "w" [] c = "X" -> "x"
      [] c = "Y" -> "y" [] c = "Z" -> "z" [] OTHER -> c

Lower(chars) == [i \in 1..Len(chars) |-> LowerChar(chars[i])]

RECURSIVE LStrip(_)
LStrip(chars) ==
    IF chars # <<>> /\ Head(chars) = " " THEN LStrip(Tail(chars)) ELSE chars

RECURSIVE RStrip(_)
RStrip(chars) ==
    IF chars # <<>> /\ chars[Len(chars)] = " "
    THEN RStrip(SubSeq(chars, 1, Len(chars) - 1))
    ELSE chars

\* str.strip(): leading and trailing blanks removed.
Strip(chars) == RStrip(LStrip(chars))

\* "." in chars
HasDot(chars) == \E i \in 1..Len(chars) : chars[i] = "."

AllDigits(chars) == \A i \in 1..Len(chars) : chars[i] \in Digits

RECURSIVE DigitsVal(_)
DigitsVal(chars) ==
    IF chars = <<>> THEN 0
    ELSE 10 * DigitsVal(SubSeq(chars, 1, Len(chars) - 1))
         + DigitVal(chars[Len(chars)])

HasSign(chars) == chars # <<>> /\ Head(chars) \in {"+", "-"}
Unsigned(chars) == IF HasSign(chars) THEN Tail(chars) ELSE chars
SignOf(chars) == IF chars # <<>> /\ Head(chars) = "-" THEN -1 ELSE 1

\* int(chars): blanks around it stripped, an optional sign, then one or more
\* decimal digits; anything else raises ValueError (ok = FALSE).
\* Not modelled: digit-group underscores ("1_0").
IntParse(chars) ==
    LET t == Strip(chars)
        body == Unsigned(t)
    IN  IF body # <<>> /\ AllDigits(body)
        THEN [ok |-> TRUE, v |-> PyInt(SignOf(t) * DigitsVal(body))]
        ELSE [ok |-> FALSE, v |-> PyNone]

DotAt(chars) == CHOOSE i \in 1..Len(chars) : chars[i] = "."

\* float(chars): blanks stripped, an optional sign, then "nan" in any case,
\* or digits with at most one "." and at least one digit; anything else
\* raises ValueError. The result is exact for at most FracDigits digits after
\* the point. Not modelled: exponents ("1e5"), "inf", underscores.
FloatParse(chars) ==
    LET t == Strip(chars)
        body == Unsigned(t)
        whole == IF HasDot(body) THEN SubSeq(body, 1, DotAt(body) - 1) ELSE body
        frac == IF HasDot(body)
                THEN SubSeq(body, DotAt(body) + 1, Len(body)) ELSE <<>>
    IN  IF Lower(body) = <<"n", "a", "n">>
        THEN [ok |-> TRUE, v |-> PyNaN]
        ELSE IF /\ AllDigits(whole) /\ AllDigits(frac)
                /\ Len(whole) + Len(frac) > 0
                /\ Len(frac) <= FracDigits
        THEN [ok |-> TRUE,
              v |-> PyFloat(SignOf(t) * (DigitsVal(whole) * Scale
                        + DigitsVal(frac) * Pow10(FracDigits - Len(frac))))]
        ELSE [ok |-> FALSE, v |-> PyNone]

\* float(x) of any value: a str is parsed, a number or bool converted.
\* float(None) raises TypeError.
ToFloat(v) ==
    CASE v.k = "str" -> FloatParse(v.s)
      [] v.k = "int" -> [ok |-> TRUE, v |-> PyFloat(v.n * Scale)]
      [] v.k = "bool" -> [ok |-> TRUE, v |-> PyFloat(v.n * Scale)]
      [] v.k = "float" -> [ok |-> TRUE, v |-> v]
      [] v.k = "nan" -> [ok |-> TRUE, v |-> v]
      [] OTHER -> [ok |-> FALSE, v |-> PyNone]

\* The string literals the code compares with.
S_Any == PyStr(<<"A", "n", "y">>)
S_Empty == PyStr(<<>>)
T_string == PyStr(<<"s", "t", "r", "i", "n", "g">>)
T_number == PyStr(<<"n", "u", "m", "b", "e", "r">>)
T_boolean == PyStr(<<"b", "o", "o", "l", "e", "a", "n">>)
T_array == PyStr(<<"a", "r", "r", "a", "y">>)

\* ------------------------------------------------ construct_schema_definition

\* Mutant of CastNumber: float() whether or not the string has a ".".
CastNumber_AlwaysFloat(raw) ==
    LET r == FloatParse(raw.s)
    IN  IF r.ok THEN r.v ELSE raw

\* float(raw_value) if "." in raw_value else int(raw_value), with the bare
\* except that falls back to the raw string.
CastNumber(raw) ==
    LET r == IF HasDot(raw.s) THEN FloatParse(raw.s) ELSE IntParse(raw.s)
    IN  IF r.ok THEN r.v ELSE raw

\* "true"/"false" in any case become booleans, anything else None.
CastBoolean(raw) ==
    IF Lower(raw.s) = <<"t", "r", "u", "e">> THEN PyBool(TRUE)
    ELSE IF Lower(raw.s) = <<"f", "a", "l", "s", "e">> THEN PyBool(FALSE)
    ELSE PyNone

\* Mutant of FinalValue: the test for "Any" is forgotten.
FinalValue_NoAny(param_data) ==
    LET raw_value == Get(param_data, "value")
    IN  IF raw_value.k = "None" THEN PyNone
        ELSE IF IsStr(raw_value)
        THEN IF Strip(raw_value.s) = <<>>
             THEN PyNone
             ELSE IF PyEq(Get(param_data, "type"), T_number)
             THEN CastNumber(raw_value)
             ELSE IF PyEq(Get(param_data, "type"), T_boolean)
             THEN CastBoolean(raw_value)
             ELSE raw_value
        ELSE raw_value

\* final_value of a top-level parameter; PyNone means no value key is stored.
FinalValue(param_data) ==
    LET raw_value == Get(param_data, "value")
    IN  IF raw_value.k = "None" THEN PyNone
        ELSE IF IsStr(raw_value)
        THEN IF Strip(raw_value.s) = <<>> \/ PyEq(raw_value, S_Any)
             THEN PyNone
             ELSE IF PyEq(Get(param_data, "type"), T_number)
             THEN CastNumber(raw_value)
             ELSE IF PyEq(Get(param_data, "type"), T_boolean)
             THEN CastBoolean(raw_value)
             ELSE raw_value
        ELSE raw_value

\* n_final_val of a nested field (the nested copy of the same filter).
NestedFinalValue(np) ==
    LET n_raw_val == Get(np, "value")
    IN  IF n_raw_val.k = "None" THEN PyNone
        ELSE IF IsStr(n_raw_val)
        THEN IF Strip(n_raw_val.s) = <<>> \/ PyEq(n_raw_val, S_Any)
             THEN PyNone
             ELSE IF PyEq(Get(np, "type"), T_number)
             THEN CastNumber(n_raw_val)
             ELSE IF PyEq(Get(np, "type"), T_boolean)
             THEN CastBoolean(n_raw_val)
             ELSE n_raw_val
        ELSE n_raw_val

\* A dict with the one key when present holds, the empty dict otherwise.
KeyIf(present, key, val) == IF present THEN key :> val ELSE <<>>

\* n_props of one nested field.
NestedProps(np) ==
    ("type" :> GetOr(np, "type", S_Empty))
    @@ ("description" :> GetOr(np, "description", S_Empty))
    @@ KeyIf(Truthy(Get(np, "regex")), "regex", Get(np, "regex"))
    @@ KeyIf(NestedFinalValue(np).k # "None", "value", NestedFinalValue(np))

NestedExport(nestedSchema) ==
    [nk \in DOMAIN nestedSchema |-> NestedProps(nestedSchema[nk])]

\* The canonical field definition of a repository parameter.
construct_schema_definition(param_data) ==
    ("type" :> GetOr(param_data, "type", S_Empty))
    @@ ("description" :> GetOr(param_data, "description", S_Empty))
    @@ KeyIf(FinalValue(param_data).k # "None", "value", FinalValue(param_data))
    @@ IF PyEq(Get(param_data, "type"), T_array)
          /\ "nestedSchema" \in DOMAIN param_data
       THEN "nestedSchema" :> NestedExport(param_data["nestedSchema"])
       ELSE <<>>

\* -------------------------------------------------------- find_impacted_schemas

\* Mutant of find_impacted_schemas: the key is misspelt, so the default is
\* returned for every parameter.
find_impacted_schemas_Typo(param_name, repo_data) ==
    IF param_name \notin DOMAIN repo_data THEN <<>>
    ELSE IF "usedInSchema" \in DOMAIN repo_data[param_name]
    THEN repo_data[param_name]["usedInSchema"]
    ELSE <<>>

find_impacted_schemas(param_name, repo_data) ==
    IF param_name \notin DOMAIN repo_data THEN <<>>
    ELSE IF "usedInSchemas" \in DOMAIN repo_data[param_name]
    THEN repo_data[param_name]["usedInSchemas"]
    ELSE <<>>

\* ---------------------------------------------------------- check_schema_health

Reserved == {"event_name", "version"}

\* x in ("Any", "", None) / x in ("Any", "")
IsAnyEmptyNone(v) == PyEq(v, S_Any) \/ PyEq(v, S_Empty) \/ PyEq(v, PyNone)
IsAnyEmpty(v) == PyEq(v, S_Any) \/ PyEq(v, S_Empty)

\* The try block that turns both sides into floats: the current side first,
\* then the expected side; the first conversion that raises ends the block and
\* leaves what was not yet converted as it was.
CoercePair(c, e) ==
    LET fc == IF c.k = "None" THEN [ok |-> TRUE, v |-> c] ELSE ToFloat(c)
        fe == IF e.k = "None" THEN [ok |-> TRUE, v |-> e] ELSE ToFloat(e)
    IN  IF ~fc.ok THEN <<c, e>>
        ELSE IF ~fe.ok THEN <<fc.v, e>>
        ELSE <<fc.v, fe.v>>

NestedKeys == <<"type", "value", "regex", "description">>

\* One round of the inner loop: does attribute key of nested field cv differ
\* from the expected ev?
NestedKeyMismatch(cv, ev, key) ==
    LET val_c == Get(cv, key)
        val_e == Get(ev, key)
        norm_c == IF IsAnyEmpty(val_c) THEN PyNone ELSE val_c
        norm_e == IF IsAnyEmpty(val_e) THEN PyNone ELSE val_e
        pair == IF key = "value" /\ PyEq(Get(cv, "type"), T_number)
                THEN CoercePair(norm_c, norm_e)
                ELSE <<norm_c, norm_e>>
    IN  \/ ~PyEq(pair[1], pair[2])
        \/ val_c.k # "None" /\ val_e.k = "None"

\* is_mismatch of the nested comparison.
NestedMismatch(current_nested, expected_nested) ==
    IF Cardinality(DOMAIN current_nested) # Cardinality(DOMAIN expected_nested)
    THEN TRUE
    ELSE \E nk \in DOMAIN expected_nested :
            \/ nk \notin DOMAIN current_nested
            \/ \E i \in 1..Len(NestedKeys) :
                  NestedKeyMismatch(current_nested[nk], expected_nested[nk],
                                    NestedKeys[i])

\* The final value comparison of a parameter.
ValueMismatch(schema_param, expected_props) ==
    LET s0 == Get(schema_param, "value")
        e0 == Get(expected_props, "value")
        s_val == IF IsAnyEmptyNone(s0) THEN PyNone ELSE s0
        e_val == IF IsAnyEmptyNone(e0) THEN PyNone ELSE e0
        pair == IF PyEq(Get(schema_param, "type"), T_number)
                THEN CoercePair(s_val, e_val)
                ELSE <<s_val, e_val>>
    IN  ~PyEq(pair[1], pair[2])

\* Mutant of IsOutdated: the field is compared with the raw repository
\* parameter instead of its canonical definition.
IsOutdated_RawRepo(schema_param, repo_param) ==
    LET expected_props == repo_param
    IN  \/ ~PyEq(Get(schema_param, "type"), Get(expected_props, "type"))
        \/ ~PyEq(GetOr(schema_param, "description", S_Empty),
                 GetOr(expected_props, "description", S_Empty))
        \/ /\ "regex" \in DOMAIN expected_props
           /\ ~PyEq(Get(schema_param, "regex"), expected_props["regex"])
        \/ /\ PyEq(Get(expected_props, "type"), T_array)
           /\ "nestedSchema" \in DOMAIN expected_props
           /\ NestedMismatch(IF "nestedSchema" \in DOMAIN schema_param
                             THEN schema_param["nestedSchema"] ELSE <<>>,
                             expected_props["nestedSchema"])
        \/ ValueMismatch(schema_param, expected_props)

\* Whether one loop round appends param_name to outdated.
IsOutdated(schema_param, repo_param) ==
    LET expected_props == construct_schema_definition(repo_param)
    IN  \/ ~PyEq(Get(schema_param, "type"), Get(expected_props, "type"))
        \/ ~PyEq(GetOr(schema_param, "description", S_Empty),
                 GetOr(expected_props, "description", S_Empty))
        \/ /\ "regex" \in DOMAIN expected_props
           /\ ~PyEq(Get(schema_param, "regex"), expected_props["regex"])
        \/ /\ PyEq(Get(expected_props, "type"), T_array)
           /\ "nestedSchema" \in DOMAIN expected_props
           /\ NestedMismatch(IF "nestedSchema" \in DOMAIN schema_param
                             THEN schema_param["nestedSchema"] ELSE <<>>,
                             expected_props["nestedSchema"])
        \/ ValueMismatch(schema_param, expected_props)

\* The order in which a document lists its fields (dict insertion order).
FieldOrder == <<"event_name", "version", "p", "x">>

\* Mutant of OutdatedFrom: the reserved fields are compared like the rest.
RECURSIVE OutdatedFrom_ReservedToo(_, _, _)
OutdatedFrom_ReservedToo(i, schema_data, repo_data) ==
    IF i > Len(FieldOrder) THEN <<>>
    ELSE LET param_name == FieldOrder[i]
             rest == OutdatedFrom_ReservedToo(i + 1, schema_data, repo_data)
         IN  IF param_name \notin DOMAIN schema_data THEN rest
             ELSE IF param_name \notin DOMAIN repo_data THEN rest
             ELSE IF IsOutdated(schema_data[param_name], repo_data[param_name])
             THEN <<param_name>> \o rest
             ELSE rest

RECURSIVE OutdatedFrom(_, _, _)
OutdatedFrom(i, schema_data, repo_data) ==
    IF i > Len(FieldOrder) THEN <<>>
    ELSE LET param_name == FieldOrder[i]
             rest == OutdatedFrom(i + 1, schema_data, repo_data)
         IN  IF param_name \notin DOMAIN schema_data THEN rest
             ELSE IF param_name \in Reserved THEN rest
             ELSE IF param_name \notin DOMAIN repo_data THEN rest
             ELSE IF IsOutdated(schema_data[param_name], repo_data[param_name])
             THEN <<param_name>> \o rest
             ELSE rest

\* The health check returns outdated, a Python list of parameter names.
check_schema_health(schema_data, repo_data) ==
    [kind |-> "list", items |-> OutdatedFrom(1, schema_data, repo_data)]

\* ------------------------------------------------------------ update_schema_full

\* Mutant of ResyncedSchema: the canonical definition is merged into the
\* field (dict.update) instead of replacing it.
ResyncedSchema_Merge(current_schema, repo_data) ==
    [param_name \in DOMAIN current_schema |->
        IF param_name \notin Reserved /\ param_name \in DOMAIN repo_data
        THEN construct_schema_definition(repo_data[param_name])
             @@ current_schema[param_name]
        ELSE current_schema[param_name]]

\* new_schema after the loop: every non-reserved field that the repository
\* knows is replaced by its canonical definition.
ResyncedSchema(current_schema, repo_data) ==
    [param_name \in DOMAIN current_schema |->
        IF param_name \notin Reserved /\ param_name \in DOMAIN repo_data
        THEN construct_schema_definition(repo_data[param_name])
        ELSE current_schema[param_name]]

\* updates_made after the loop.
UpdatesMade(current_schema, repo_data) ==
    \E param_name \in DOMAIN current_schema :
        param_name \notin Reserved /\ param_name \in DOMAIN repo_data

\* ------------------------------------------------------------------- explorer

\* The explorer reads a health entry h with h.get(bucket): a list has no
\* get, so the read raises AttributeError and yields no names.
HealthBucket(h, bucket_name) ==
    IF h.kind = "dict" THEN h[bucket_name] ELSE <<>>

\* ---------------------------------------------------------------------- state

VARIABLES
    repo,     \* st.session_state.repo: parameter name -> parameter
    bucket,   \* the storage bucket: document name -> document
    synced,   \* documents whose stored content was written by a full resync
              \* against the current repo and not touched since
    last,     \* the last operation: its arguments and what it returned
    stored,   \* the repository blob (repo.json) in the storage
    pending,  \* st.session_state.pending_confirmation
    cache,    \* st.session_state.explorer_cache
    event_name,  \* st.session_state.event_name of the builder
    schema,   \* st.session_state.schema of the builder: the picked fields
    ops,      \* how many buttons the operator has pressed in the session
    pool      \* the ThreadPoolExecutor of read_schemas_parallel: the batch
              \* of fetches in flight

\* The session state of the parameter pages and of the builder, and the
\* pool of reads.
gateway == <<stored, pending, cache, event_name, schema, ops, pool>>

vars == <<repo, bucket, synced, last, stored, pending, cache, event_name, schema, ops,
          pool>>

\* No pending_confirmation key in the session state.
NoPending ==
    [present |-> FALSE, param_name |-> "", draft_param_data |-> <<>>, map |-> <<>>]

\* No explorer_cache key in the session state.
NoCache == [present |-> FALSE, schemas |-> <<>>, health |-> <<>>]

\* No batch of reads in flight.
NoPool ==
    [active |-> FALSE, schema_names |-> <<>>, failing |-> {}, futures |-> <<>>,
     completed |-> <<>>, returned |-> FALSE, out |-> <<>>]

NoReport == [kind |-> "none", items |-> <<>>]

Idle ==
    [op |-> "none", name |-> "", report |-> NoReport,
     ok |-> FALSE, msgs |-> <<>>, before |-> <<>>, attempt |-> <<>>,
     read |-> FALSE, uploaded |-> FALSE, wasSynced |-> FALSE,
     impacted |-> <<>>]

\* ------------------------------------------------------------------- storage

\* readSchemaToJson: the document, or {} when the read raises (no such
\* blob, or the storage fails: fails = TRUE).
readSchemaToJson(schema_name, fails) ==
    IF ~fails /\ schema_name \in DOMAIN bucket THEN bucket[schema_name] ELSE <<>>

\* uploadJson(data, name, silent=True): the blob is replaced, or, when the
\* upload raises, the error is kept in the session state and nothing is
\* written; either way the call returns normally.
uploadJson(data, destination_blob_name, fails) ==
    IF fails THEN bucket
    ELSE (destination_blob_name :> data) @@ bucket

\* ------------------------------------------------------------------- inputs

D1 == PyStr(<<"d", "1">>)
D2 == PyStr(<<"d", "2">>)
R1 == PyStr(<<"r", "1">>)

\* Raw values a repository parameter may carry.
RawStrings ==
    {PyStr(<<>>), PyStr(<<" ">>), S_Any, PyStr(<<"3">>), PyStr(<<"3", ".", "0">>),
     PyStr(<<"3", ".", "5">>), PyStr(<<"a", "b", "c">>),
     PyStr(<<"T", "r", "u", "e">>), PyStr(<<"n", "a", "n">>)}
RawValues == RawStrings \cup {PyInt(3), PyFloat(3 * Scale + Scale \div 2), PyBool(TRUE)}

\* Values a stored document field may carry.
DocValues ==
    {PyStr(<<>>), S_Any, PyStr(<<"3">>), PyStr(<<"3", ".", "0">>),
     PyStr(<<"a", "b", "c">>), PyStr(<<"n", "a", "n">>),
     PyInt(3), PyFloat(3 * Scale + Scale \div 2), PyBool(TRUE)}

\* The raw values that meet every document field.
CoreValues ==
    {S_Any, PyStr(<<"3">>), PyStr(<<"3", ".", "5">>), PyStr(<<"a", "b", "c">>),
     PyStr(<<"n", "a", "n">>), PyInt(3)}

\* The dicts with key bound to one of vals, and the dict without the key.
Opt(key, vals) == {<<>>} \cup {key :> v : v \in vals}

ScalarTypes == {T_string, T_number, T_boolean}

\* Non-array repository parameters: a fixed value, a regex, neither or both.
RepoScalarParams ==
    {("type" :> t) @@ ("description" :> d) @@ vr :
        t \in ScalarTypes, d \in {D1, D2},
        vr \in Opt("value", RawValues) \cup {"regex" :> R1}
               \cup {("value" :> PyStr(<<"a", "b", "c">>)) @@ ("regex" :> R1)}}

\* The repository parameters that meet every document field.
RepoCoreParams ==
    {("type" :> t) @@ ("description" :> d) @@ vr :
        t \in {T_string, T_number}, d \in {D1, D2},
        vr \in Opt("value", CoreValues) \cup {"regex" :> R1}}

NestedNamePool == <<"qty", "sku", "uom", "tag">>
NestedNames == {NestedNamePool[i] : i \in 1..MaxNested}

\* Nested parameters of the repository: the first nested name draws from
\* the full pool, the others from two definitions.
RepoNestedFull ==
    {("type" :> T_number) @@ ("description" :> D1) @@ vr :
        vr \in Opt("value", {S_Any, PyStr(<<" ">>), PyStr(<<"3">>),
                             PyStr(<<"3", ".", "5">>), PyInt(3),
                             PyStr(<<"a", "b", "c">>)})
               \cup Opt("regex", {R1, S_Empty})}
RepoNestedPlain ==
    {("type" :> T_string) @@ ("description" :> d) : d \in {D1, D2}}
RepoNestedFor(nk) == IF nk = NestedNamePool[1] THEN RepoNestedFull ELSE RepoNestedPlain

\* All nestedSchema dicts of the repository over the nested names from the
\* i-th on: each name is left out or bound to one of its definitions.
RECURSIVE RepoNestedDicts(_)
RepoNestedDicts(i) ==
    IF i > MaxNested THEN {<<>>}
    ELSE LET rest == RepoNestedDicts(i + 1)
         IN  rest \cup {(NestedNamePool[i] :> v) @@ r :
                            v \in RepoNestedFor(NestedNamePool[i]), r \in rest}

RepoArrayParams ==
    {("type" :> T_array) @@ ("description" :> d) @@ ns :
        d \in {D1, D2},
        ns \in {<<>>} \cup {"nestedSchema" :> n :
                            n \in RepoNestedDicts(1)}}
    \cup {("type" :> T_array) @@ ("description" :> D1) @@ ("value" :> v) :
            v \in {S_Any, S_Empty, PyStr(<<"a", "b", "c">>)}}

\* Document fields without nestedSchema, of any type.
DocScalarFields ==
    {t @@ d @@ v @@ r :
        t \in Opt("type", {T_string, T_number, T_array}),
        d \in Opt("description", {D1}),
        v \in Opt("value", DocValues),
        r \in Opt("regex", {R1})}

\* The document fields that meet every repository parameter.
DocCoreFields ==
    {("type" :> T_string) @@ ("description" :> D1) @@ ("value" :> PyStr(<<"a", "b", "c">>)),
     ("type" :> T_number) @@ ("description" :> D1) @@ ("value" :> PyInt(3)),
     ("type" :> T_boolean) @@ ("description" :> D2) @@ ("value" :> PyBool(TRUE)),
     ("type" :> T_array) @@ ("description" :> D1)}

DocNestedFull ==
    {("type" :> T_number) @@ ("description" :> D1) @@ vr :
        vr \in Opt("value", {S_Any, PyStr(<<"3">>), PyInt(3)})
               \cup Opt("regex", {R1, S_Empty})}
    \cup {"type" :> T_number}
DocNestedPlain ==
    {("type" :> t) @@ ("description" :> D1) : t \in {T_string, T_number}}
DocNestedFor(nk) == IF nk = NestedNamePool[1] THEN DocNestedFull ELSE DocNestedPlain

RECURSIVE DocNestedDicts(_)
DocNestedDicts(i) ==
    IF i > MaxNested THEN {<<>>}
    ELSE LET rest == DocNestedDicts(i + 1)
         IN  rest \cup {(NestedNamePool[i] :> v) @@ r :
                            v \in DocNestedFor(NestedNamePool[i]), r \in rest}

\* Document fields of type array, and a few others to meet an array
\* parameter with.
DocArrayFields ==
    {("type" :> T_array) @@ ("description" :> D1) @@ ns :
        ns \in {<<>>} \cup {"nestedSchema" :> n :
                            n \in DocNestedDicts(1)}}
    \cup {("type" :> t) @@ ("description" :> D1) @@ v :
            t \in {T_array, T_string}, v \in Opt("value", {PyStr(<<"3">>)})}

\* The fixed surroundings: the reserved fields, a document field x that the
\* repository does not know, a repository parameter q that the document does
\* not use, and a repository parameter that bears a reserved name.
EventNameField ==
    ("type" :> T_string) @@ ("description" :> D1) @@ ("value" :> PyStr(<<"b", "u", "y">>))
VersionField ==
    ("type" :> T_number) @@ ("description" :> D1) @@ ("value" :> PyInt(1))
XField ==
    ("type" :> T_string) @@ ("description" :> D2) @@ ("regex" :> R1)
QParam ==
    ("type" :> T_string) @@ ("description" :> D1) @@ ("value" :> S_Any)
    @@ ("usedInSchemas" :> <<"s1.json", "s2.json">>)
VersionParam ==
    ("type" :> T_string) @@ ("description" :> D2) @@ ("value" :> PyStr(<<"9">>))

DocNames == {"s1.json", "s2.json"}
ParamNames == {"p", "q", "version", "zz"}

Document(pField) ==
    ("event_name" :> EventNameField) @@ ("version" :> VersionField)
    @@ ("p" :> pField) @@ ("x" :> XField)

Repository(pParam) ==
    ("p" :> (pParam @@ ("usedInSchemas" :> <<"s1.json">>)))
    @@ ("q" :> QParam) @@ ("version" :> VersionParam)

Init ==
    /\ \E pair \in (RepoScalarParams \X DocCoreFields)
                    \cup (RepoCoreParams \X DocScalarFields)
                    \cup (RepoArrayParams \X DocArrayFields) :
       LET pParam == pair[1]
           pField == pair[2]
       IN /\ repo = Repository(pParam)
          /\ bucket = ("s1.json" :> Document(pField))
    /\ synced = {}
    /\ last = Idle
    /\ stored = repo
    /\ pending = NoPending
    /\ cache = NoCache
    /\ event_name = ""
    /\ schema = <<>>
    /\ ops = 0
    /\ pool = NoPool

\* ------------------------------------------------------------------ actions

\* The explorer (or the cache sync) fetches a document and checks its health.
CheckSchemaHealth(schema_name, readFails) ==
    LET content == readSchemaToJson(schema_name, readFails)
    IN  /\ last' = [Idle EXCEPT !.op = "check_schema_health",
                                !.name = schema_name,
                                !.before = content,
                                !.report = check_schema_health(content, repo)]
        /\ UNCHANGED <<repo, bucket, synced>>
        /\ UNCHANGED gateway

UpdateSchemaFull(schema_name, readFails, uploadFails) ==
    LET current_schema == readSchemaToJson(schema_name, readFails)
        new_schema == ResyncedSchema(current_schema, repo)
        base == [Idle EXCEPT !.op = "update_schema_full",
                             !.name = schema_name,
                             !.before = current_schema,
                             !.wasSynced = schema_name \in synced]
    IN  /\ UNCHANGED gateway
        /\ IF DOMAIN current_schema = {}
           THEN /\ last' = [base EXCEPT !.msgs = <<"Schema not found">>]
                /\ UNCHANGED <<repo, bucket, synced>>
           ELSE IF UpdatesMade(current_schema, repo)
           THEN /\ bucket' = uploadJson(new_schema, schema_name, uploadFails)
                /\ synced' = IF uploadFails THEN synced ELSE synced \cup {schema_name}
                /\ last' = [base EXCEPT !.ok = TRUE, !.read = TRUE,
                                        !.attempt = new_schema,
                                        !.uploaded = ~uploadFails]
                /\ UNCHANGED repo
           ELSE /\ last' = [base EXCEPT !.read = TRUE,
                                        !.msgs = <<"No updates needed">>]
                /\ UNCHANGED <<repo, bucket, synced>>

FindImpactedSchemas(param_name) ==
    /\ last' = [Idle EXCEPT !.op = "find_impacted_schemas",
                            !.name = param_name,
                            !.impacted = find_impacted_schemas(param_name, repo)]
    /\ UNCHANGED <<repo, bucket, synced>>
    /\ UNCHANGED gateway

\* A read can only fail on a blob that exists (a missing blob is not found
\* anyway), an upload only when something is read.
Next ==
    \/ \E n \in DocNames, rf \in BOOLEAN :
          /\ rf => n \in DOMAIN bucket
          /\ CheckSchemaHealth(n, rf)
    \/ \E n \in DocNames, rf \in BOOLEAN, uf \in BOOLEAN :
          /\ rf => n \in DOMAIN bucket
          /\ uf => ~rf /\ n \in DOMAIN bucket
          /\ UpdateSchemaFull(n, rf, uf)
    \/ \E prm \in ParamNames : FindImpactedSchemas(prm)

Spec == Init /\ [][Next]_vars

\* ---------------------------------------------------- the mutation gateway

\* dict[key] = val and dict.pop(key, None).
DictSet(d, key, val) == (key :> val) @@ d
DictDel(d, key) == [k \in DOMAIN d \ {key} |-> d[k]]

Range(seq) == {seq[i] : i \in 1..Len(seq)}

\* The names a usedInSchemas entry may be: an event name as the builder
\* records it, a blob name, the empty event name, a name with no blob.
UsageNames == {"", "s1", "s2", "s1.json", "s2.json", "gone"}

\* s if s.endswith(".json") else f"{s}.json"
FullName(s) ==
    CASE s = "" -> ".json"
      [] s = "s1" -> "s1.json"
      [] s = "s2" -> "s2.json"
      [] s = "gone" -> "gone.json"
      [] OTHER -> s

\* full_names: the list comprehension over impacted_schemas.
FullNames(impacted_schemas) ==
    [i \in 1..Len(impacted_schemas) |-> FullName(impacted_schemas[i])]

\* dict(zip(schema_names, results)): one entry per distinct name, {} for a
\* name whose read fails (failing) or that has no blob.
read_schemas_parallel(schema_names, failing) ==
    [n \in Range(schema_names) |-> readSchemaToJson(n, n \in failing)]

\* writeRepoToJson: the repository blob is replaced, or the error is shown
\* and nothing is written; it never raises.
writeRepoToJson(repo_data, fails) == IF fails THEN stored ELSE repo_data

\* readRepoFromJson() or {}: the stored repository, {} when the read fails.
readRepoFromJson(fails) == IF fails THEN <<>> ELSE stored

\* The cast of the edit dialog: a non-blank string of a number is parsed.
EditCast(type, val) ==
    IF type = T_number /\ IsStr(val) /\ Strip(val.s) # <<>>
    THEN CastNumber(val)
    ELSE val

\* One nested row of the edit dialog becomes an item of constructed_nested.
NestedItem(nf) ==
    ("type" :> nf["type"]) @@ ("description" :> GetOr(nf, "description", S_Empty))
    @@ (IF "value" \in DOMAIN nf
        THEN "value" :> EditCast(Get(nf, "type"), nf["value"])
        ELSE IF "regex" \in DOMAIN nf
        THEN "regex" :> nf["regex"]
        ELSE <<>>)

\* constructed_nested from the i-th row on; a later row with the same key
\* overwrites an earlier one, a row with a blank key is skipped.
RECURSIVE ConstructedNested(_, _)
ConstructedNested(rows, i) ==
    IF i = 0 THEN <<>>
    ELSE LET nf == rows[i]
             before == ConstructedNested(rows, i - 1)
         IN  IF nf["key"] = "" THEN before
             ELSE DictSet(before, nf["key"], NestedItem(nf))

\* new_value as the Save button finds it: the widget's value, or the reset
\* placeholder when the type was changed.
SavedValue(param, edit) ==
    IF edit.new_type # GetOr(param, "type", T_string)
    THEN CASE edit.new_type = T_number -> PyInt(0)
           [] edit.new_type = T_boolean -> S_Any
           [] edit.new_type = T_array -> PyNone
           [] OTHER -> S_Empty
    ELSE edit.new_value

\* draft_param_data of the Save button of edit_param_dialog.
draft_param_data(param, edit) ==
    LET base == DictSet(DictSet(DictSet(param, "type", edit.new_type),
                                "category", edit.new_category),
                        "description", edit.new_description)
    IN  IF edit.new_type = T_array
        THEN DictDel(DictDel(DictSet(base, "nestedSchema",
                                     ConstructedNested(edit.nested, Len(edit.nested))),
                             "value"), "regex")
        ELSE DictDel(IF edit.mode = "Fixed Value"
                     THEN DictDel(DictSet(base, "value",
                                          EditCast(edit.new_type, SavedValue(param, edit))),
                                  "regex")
                     ELSE DictDel(DictSet(base, "regex", edit.new_regex), "value"),
                     "nestedSchema")

\* Mutant of ProposedSchema: the field is set whether or not the document
\* has it.
ProposedSchema_Adds(orig_data, param_name, new_props) ==
    DictSet(orig_data, param_name, new_props)

\* The proposed content of one document: the field of the parameter is
\* replaced by the canonical definition when the document has it.
ProposedSchema(orig_data, param_name, new_props) ==
    IF param_name \in DOMAIN orig_data
    THEN [f \in DOMAIN orig_data |->
            IF f = param_name THEN new_props ELSE orig_data[f]]
    ELSE orig_data

\* rebuild_schema_dry_run: (original_export_schema, new_export_schema).
rebuild_schema_dry_run(schema_name, param_name, new_param_data, fails) ==
    LET original_export_schema == readSchemaToJson(schema_name, fails)
    IN  IF DOMAIN original_export_schema = {}
        THEN [original |-> <<>>, new |-> <<>>]
        ELSE [original |-> original_export_schema,
              new |-> ProposedSchema(original_export_schema, param_name,
                                     construct_schema_definition(new_param_data))]

\* Mutant of full_schema_map: a document that could not be read is kept,
\* with an empty original.
full_schema_map_KeepsUnreadable(param_name, draft, impacted_schemas, failing) ==
    LET original_contents == read_schemas_parallel(FullNames(impacted_schemas), failing)
        new_props == construct_schema_definition(draft)
    IN  [n \in DOMAIN original_contents |->
            [original |-> original_contents[n],
             new |-> ProposedSchema(original_contents[n], param_name, new_props)]]

\* full_schema_map of the Save button: an original/new pair for every
\* impacted document that could be read.
full_schema_map(param_name, draft, impacted_schemas, failing) ==
    LET original_contents == read_schemas_parallel(FullNames(impacted_schemas), failing)
        new_props == construct_schema_definition(draft)
        readable == {n \in DOMAIN original_contents :
                        DOMAIN original_contents[n] # {}}
    IN  [n \in readable |->
            [original |-> original_contents[n],
             new |-> ProposedSchema(original_contents[n], param_name, new_props)]]

\* apply_updates: uploadJson(silent=True) returns normally whether or not
\* the upload went through, so every document counts and errors stays empty.
apply_updates(schema_map, failing) ==
    [bucket |-> [n \in DOMAIN bucket \cup (DOMAIN schema_map \ failing) |->
                    IF n \in DOMAIN schema_map \ failing
                    THEN schema_map[n] ELSE bucket[n]],
     success_count |-> Cardinality(DOMAIN schema_map),
     errors |-> <<>>]

\* The health map of the cached documents.
HealthMap(schemas, repo_data) ==
    [f \in DOMAIN schemas |-> check_schema_health(schemas[f], repo_data)]

\* sync_explorer_cache(updated_schemas_map): the cached content of the
\* updated documents is replaced and the health of all cached documents is
\* computed again; nothing happens without an explorer cache.
sync_explorer_cache(c, repo_data, updated_schemas_map) ==
    IF ~c.present THEN c
    ELSE LET schemas == [f \in DOMAIN c.schemas |->
                            IF f \in DOMAIN updated_schemas_map
                            THEN updated_schemas_map[f] ELSE c.schemas[f]]
         IN  [present |-> TRUE, schemas |-> schemas,
              health |-> HealthMap(schemas, repo_data)]

\* ------------------------------------------------------------ the builder

EventNames == {"", "s2"}

\* The characters of an event name.
NameChars(n) ==
    CASE n = "s1" -> <<"s", "1">>
      [] n = "s2" -> <<"s", "2">>
      [] OTHER -> <<>>

\* val not in ("", None, [], "Any")
IsExportable(val) ==
    ~(val.k = "None" \/ PyEq(val, S_Empty) \/ PyEq(val, S_Any))

\* The cast of export_schema: any string of a number is parsed.
ExportCast(type, val) ==
    IF PyEq(type, T_number) /\ IsStr(val) THEN CastNumber(val) ELSE val

\* One nested row of the builder, from a nested parameter of the repository.
NestedInternal(nested_props) ==
    [type |-> GetOr(nested_props, "type", S_Empty),
     value |-> GetOr(nested_props, "value", S_Empty),
     regex |-> GetOr(nested_props, "regex", S_Empty),
     description |-> GetOr(nested_props, "description", S_Empty)]

\* convert_repo_param_to_internal: the builder field of a picked parameter;
\* nested holds the rows under their keys, empty when there are none.
convert_repo_param_to_internal(param_name, param_obj) ==
    LET type == GetOr(param_obj, "type", S_Empty)
        nested_src == IF "nestedSchema" \in DOMAIN param_obj
                      THEN param_obj["nestedSchema"] ELSE <<>>
    IN  [key |-> param_name,
         type |-> type,
         description |-> GetOr(param_obj, "description", S_Empty),
         value |-> IF ~PyEq(type, T_array)
                   THEN GetOr(param_obj, "value", S_Empty) ELSE S_Empty,
         regex |-> IF ~PyEq(type, T_array)
                   THEN GetOr(param_obj, "regex", S_Empty) ELSE S_Empty,
         hasNested |-> DOMAIN nested_src # {},
         nestedSchema |-> [nk \in DOMAIN nested_src |->
                              NestedInternal(nested_src[nk])]]

\* The export of one nested row.
ExportNested(nested) ==
    ("type" :> nested.type) @@ ("description" :> nested.description)
    @@ KeyIf(Truthy(nested.regex), "regex", nested.regex)
    @@ KeyIf(IsExportable(nested.value), "value",
             ExportCast(nested.type, nested.value))

\* The export of one builder field.
ExportField(field) ==
    ("type" :> field.type) @@ ("description" :> field.description)
    @@ KeyIf(~PyEq(field.type, T_array) /\ IsExportable(field.value), "value",
             ExportCast(field.type, field.value))
    @@ KeyIf(~PyEq(field.type, T_array)
             /\ ~(field.regex.k = "None" \/ PyEq(field.regex, S_Empty)),
             "regex", field.regex)
    @@ KeyIf(PyEq(field.type, T_array) /\ field.hasNested, "nestedSchema",
             [nk \in DOMAIN field.nestedSchema |->
                 ExportNested(field.nestedSchema[nk])])

\* export_schema: the document the builder would upload.
export_schema(fields, name) ==
    ("event_name" :> (("type" :> T_string) @@ ("value" :> PyStr(NameChars(name)))
                      @@ ("description" :> S_Empty)))
    @@ ("version" :> (("type" :> T_number) @@ ("value" :> PyInt(0))
                      @@ ("description" :> S_Empty)))
    @@ [k \in DOMAIN fields |-> ExportField(fields[k])]

\* param["usedInSchemas"] with schema_name appended when it is not in it.
WithUsage(param, schema_name) ==
    LET used == IF "usedInSchemas" \in DOMAIN param
                THEN param["usedInSchemas"] ELSE <<>>
    IN  DictSet(param, "usedInSchemas",
                IF schema_name \in Range(used) THEN used
                ELSE Append(used, schema_name))

\* add_schema_name_to_param_in_repo: the repository it leaves in memory.
add_schema_name_to_param_in_repo(repo_data, param_name, schema_name) ==
    IF param_name \notin DOMAIN repo_data THEN repo_data
    ELSE DictSet(repo_data, param_name, WithUsage(repo_data[param_name], schema_name))

\* update_repo_with_schema_usage: the repository it leaves in memory.
update_repo_with_schema_usage(repo_data, schema_name, schema_export_data) ==
    [prm \in DOMAIN repo_data |->
        IF prm \in DOMAIN schema_export_data \ Reserved
        THEN WithUsage(repo_data[prm], schema_name)
        ELSE repo_data[prm]]

\* st.session_state.get("upload_status") after uploadJson returned: a silent
\* call leaves the status of the upload, any other call deletes the key once
\* it has shown the message.
UploadStatusAfter(silent, fails) ==
    IF silent THEN PyBool(~fails) ELSE PyNone

\* handle_gcp_upload, after uploadJson(data, filename): the repository it
\* leaves in memory.
handle_gcp_upload(repo_data, data, name, fails) ==
    IF Truthy(UploadStatusAfter(FALSE, fails))
    THEN update_repo_with_schema_usage(repo_data, name, data)
    ELSE repo_data

\* ---------------------------------------------- the session of an operator

\* What the last operation of the session was and what it returned.
GIdle ==
    [op |-> "none", name |-> "", direct |-> FALSE, draft |-> <<>>,
     impacted |-> <<>>, docs |-> {}, selected |-> {}, failed |-> {},
     success_count |-> 0, errors |-> <<>>, written |-> FALSE,
     original |-> <<>>, new |-> <<>>, saved |-> {}]

\* Parameters of the stored repository at the start of the session.
GParams ==
    {("type" :> T_string) @@ ("description" :> D1) @@ ("value" :> PyStr(<<"a", "b", "c">>)),
     ("type" :> T_number) @@ ("description" :> D1) @@ ("value" :> PyInt(3))}

GUsages == {<<>>, <<"s1", "s2.json">>, <<"gone">>}

GQParam ==
    ("type" :> T_string) @@ ("description" :> D1) @@ ("regex" :> R1)
    @@ ("usedInSchemas" :> <<"s2">>)

GRepository(pParam, used) ==
    ("p" :> (pParam @@ (IF used = <<>> THEN <<>> ELSE "usedInSchemas" :> used)))
    @@ ("q" :> GQParam)

\* The field p of the stored documents: in step with the repository, or
\* left behind by an earlier definition.
GStaleField ==
    ("type" :> T_string) @@ ("description" :> D2)
    @@ ("value" :> PyStr(<<"o", "l", "d">>)) @@ ("regex" :> R1)

GBucket(pField) ==
    ("s1.json" :> Document(pField))
    @@ ("s2.json" :> (("event_name" :> EventNameField) @@ ("version" :> VersionField)
                      @@ ("p" :> pField)
                      @@ ("q" :> construct_schema_definition(GQParam))))

\* What the operator may enter in the edit dialog.
GEdits ==
    {[new_type |-> T_string, mode |-> "Fixed Value", new_category |-> PyNone,
      new_description |-> D2, new_value |-> PyStr(<<"a", "b", "c">>),
      new_regex |-> PyNone, nested |-> <<>>],
     [new_type |-> T_string, mode |-> "Regex Pattern", new_category |-> PyNone,
      new_description |-> D1, new_value |-> PyNone,
      new_regex |-> R1, nested |-> <<>>],
     [new_type |-> T_number, mode |-> "Fixed Value", new_category |-> PyNone,
      new_description |-> D1, new_value |-> PyFloat(3 * Scale + Scale \div 2),
      new_regex |-> PyNone, nested |-> <<>>],
     [new_type |-> T_array, mode |-> "", new_category |-> PyNone,
      new_description |-> D1, new_value |-> PyNone, new_regex |-> PyNone,
      nested |-> <<("key" :> "qty") @@ ("type" :> T_number)
                   @@ ("value" :> PyStr(<<"3">>)) @@ ("description" :> S_Empty),
                   ("key" :> "") @@ ("type" :> T_string)
                   @@ ("regex" :> R1) @@ ("description" :> S_Empty)>>]}

GInit ==
    /\ \E pParam \in GParams, used \in GUsages :
          stored = GRepository(pParam, used)
    /\ bucket = GBucket(GStaleField)
    /\ repo = stored
    /\ synced = {}
    /\ last = GIdle
    /\ pending = NoPending
    /\ cache = NoCache
    /\ event_name = ""
    /\ schema = <<>>
    /\ ops = 0
    /\ pool = NoPool

\* The Save button of edit_param_dialog(param_name).
EditSubmit(param_name, edit, failing, writeFails) ==
    /\ param_name \in DOMAIN repo
    /\ LET draft == draft_param_data(repo[param_name], edit)
           impacted_schemas == find_impacted_schemas(param_name, repo)
           map == IF impacted_schemas # <<>>
                  THEN full_schema_map(param_name, draft, impacted_schemas, failing)
                  ELSE <<>>
           base == [GIdle EXCEPT !.op = "edit_submit", !.name = param_name,
                                 !.draft = draft, !.docs = DOMAIN map,
                                 !.impacted = impacted_schemas,
                                 !.failed = failing]
       IN  IF DOMAIN map # {}
           THEN /\ pending' = [present |-> TRUE, param_name |-> param_name,
                               draft_param_data |-> draft, map |-> map]
                /\ last' = base
                /\ UNCHANGED <<repo, stored, cache>>
           ELSE /\ repo' = DictSet(repo, param_name, draft)
                /\ stored' = writeRepoToJson(repo', writeFails)
                /\ cache' = sync_explorer_cache(cache, repo', <<>>)
                /\ last' = [base EXCEPT !.direct = TRUE, !.written = ~writeFails]
                /\ UNCHANGED pending
    /\ UNCHANGED <<bucket, synced, event_name, schema>>

\* Mutant of updates_only: the selection is ignored.
updates_only_All(map, selected_schemas) ==
    [n \in DOMAIN map |-> map[n].new]

\* updates_only: the proposed content of the selected documents.
updates_only(map, selected_schemas) ==
    [n \in selected_schemas |-> map[n].new]

\* The Confirm & Update button of confirm_update_dialog.
Confirm(selected_schemas, failing, writeFails) ==
    /\ pending.present
    /\ selected_schemas \subseteq DOMAIN pending.map
    /\ failing \subseteq selected_schemas
    /\ LET updates == updates_only(pending.map, selected_schemas)
           applied == IF DOMAIN updates # {}
                      THEN apply_updates(updates, failing)
                      ELSE [bucket |-> bucket, success_count |-> 0, errors |-> <<>>]
           draft_data == pending.draft_param_data
       IN  /\ bucket' = applied.bucket
           /\ IF DOMAIN draft_data # {}
              THEN /\ repo' = DictSet(repo, pending.param_name, draft_data)
                   /\ stored' = writeRepoToJson(repo', writeFails)
              ELSE UNCHANGED <<repo, stored>>
           /\ cache' = sync_explorer_cache(cache, repo', updates)
           /\ last' = [GIdle EXCEPT !.op = "confirm", !.name = pending.param_name,
                                    !.docs = DOMAIN pending.map,
                                    !.selected = selected_schemas,
                                    !.failed = failing,
                                    !.success_count = applied.success_count,
                                    !.errors = applied.errors,
                                    !.written = DOMAIN draft_data # {} /\ ~writeFails]
    /\ pending' = NoPending
    /\ UNCHANGED <<synced, event_name, schema>>

\* Mutant of Cancel: the draft is committed to the repository on the way out.
Cancel_Commits ==
    /\ pending.present
    /\ pending' = NoPending
    /\ repo' = DictSet(repo, pending.param_name, pending.draft_param_data)
    /\ stored' = repo'
    /\ last' = [GIdle EXCEPT !.op = "cancel", !.name = pending.param_name]
    /\ UNCHANGED <<bucket, synced, cache, event_name, schema>>

\* The Cancel button of confirm_update_dialog.
Cancel ==
    /\ pending.present
    /\ pending' = NoPending
    /\ last' = [GIdle EXCEPT !.op = "cancel", !.name = pending.param_name]
    /\ UNCHANGED <<repo, stored, bucket, synced, cache, event_name, schema>>

\* rebuild_schema_dry_run(schema_name, param_name, new_param_data).
RebuildSchemaDryRun(schema_name, param_name, edit, fails) ==
    /\ param_name \in DOMAIN repo
    /\ LET draft == draft_param_data(repo[param_name], edit)
           result == rebuild_schema_dry_run(schema_name, param_name, draft, fails)
       IN  last' = [GIdle EXCEPT !.op = "rebuild_schema_dry_run",
                                 !.name = schema_name, !.draft = draft,
                                 !.impacted = <<param_name>>,
                                 !.original = result.original,
                                 !.new = result.new]
    /\ UNCHANGED <<repo, stored, bucket, synced, pending, cache, event_name, schema>>

\* render_builder: the page loads the repository again on every run and
\* takes the event name that was typed while it has none.
RenderBuilder(typed, reloadFails) ==
    /\ repo' = readRepoFromJson(reloadFails)
    /\ event_name' = IF event_name = "" THEN typed ELSE event_name
    /\ last' = [GIdle EXCEPT !.op = "render_builder", !.name = event_name']
    /\ UNCHANGED <<stored, bucket, synced, pending, cache, schema>>

\* The Add selected parameter button of the builder, on a page that loaded
\* the repository, and the run of the page that follows it (which loads the
\* repository again).
AddSelectedParameter(selected, writeFails) ==
    /\ selected \in DOMAIN stored
    /\ selected \notin DOMAIN schema \cup Reserved
    /\ LET loaded == readRepoFromJson(FALSE)
           added == add_schema_name_to_param_in_repo(loaded, selected, event_name)
       IN  /\ schema' = DictSet(schema, selected,
                                convert_repo_param_to_internal(selected, loaded[selected]))
           /\ stored' = writeRepoToJson(added, writeFails)
           /\ repo' = stored'
           /\ last' = [GIdle EXCEPT !.op = "add_selected_parameter",
                                    !.name = selected, !.written = ~writeFails]
    /\ UNCHANGED <<bucket, synced, pending, cache, event_name>>

\* The Send to GCP button of the builder (handle_gcp_upload), and the run of
\* the page that follows it (which loads the repository again).
SendToGCP(uploadFails, writeFails) ==
    /\ event_name # ""
    /\ LET data == export_schema(schema, event_name)
           filename == FullName(event_name)
           after == handle_gcp_upload(repo, data, event_name, uploadFails)
       IN  /\ bucket' = uploadJson(data, filename, uploadFails)
           /\ stored' = IF after # repo THEN writeRepoToJson(after, writeFails)
                        ELSE stored
           /\ repo' = stored'
           /\ last' = [GIdle EXCEPT !.op = "send_to_gcp", !.name = filename,
                                    !.new = data, !.written = ~uploadFails]
    /\ UNCHANGED <<synced, pending, cache, event_name, schema>>

\* render_explorer, after clear_cache when the Refresh button was pressed:
\* the repository is loaded when the session has none, and an empty cache is
\* filled with the stored documents and their health.
RenderExplorer(refresh, reloadFails) ==
    /\ refresh => cache.present
    /\ repo' = IF refresh THEN readRepoFromJson(reloadFails) ELSE repo
    /\ cache' = IF refresh \/ DOMAIN cache.schemas = {}
                THEN [present |-> TRUE, schemas |-> bucket,
                      health |-> HealthMap(bucket, repo')]
                ELSE cache
    /\ last' = [GIdle EXCEPT !.op = "render_explorer"]
    /\ UNCHANGED <<stored, bucket, synced, pending, event_name, schema>>

\* One nested row of the bulk form becomes an item of constructed_nested:
\* the mode of the row decides between value and regex.
BulkNestedItem(nf) ==
    ("type" :> nf["type"]) @@ ("description" :> GetOr(nf, "description", S_Empty))
    @@ (IF nf["mode"] = "Value"
        THEN "value" :> EditCast(nf["type"], Get(nf, "value"))
        ELSE "regex" :> Get(nf, "regex"))

\* constructed_nested of the bulk form, from the i-th row on.
RECURSIVE BulkConstructedNested(_, _)
BulkConstructedNested(rows, i) ==
    IF i = 0 THEN <<>>
    ELSE LET nf == rows[i]
             before == BulkConstructedNested(rows, i - 1)
         IN  IF nf["key"] = "" THEN before
             ELSE DictSet(before, nf["key"], BulkNestedItem(nf))

\* Mutant of new_param: a nestedSchema is stored whatever the type.
new_param_AlwaysNested(p_data) ==
    ("type" :> p_data.type) @@ ("category" :> p_data.category)
    @@ ("description" :> p_data.description)
    @@ ("nestedSchema" :> BulkConstructedNested(p_data.nested, Len(p_data.nested)))
    @@ (IF p_data.type = T_array THEN <<>>
        ELSE IF p_data.mode = "Value"
        THEN "value" :> EditCast(p_data.type, p_data.value)
        ELSE "regex" :> p_data.regex)

\* new_param of one row of the bulk form.
new_param(p_data) ==
    ("type" :> p_data.type) @@ ("category" :> p_data.category)
    @@ ("description" :> p_data.description)
    @@ (IF p_data.type = T_array
        THEN "nestedSchema" :> BulkConstructedNested(p_data.nested, Len(p_data.nested))
        ELSE IF p_data.mode = "Value"
        THEN "value" :> EditCast(p_data.type, p_data.value)
        ELSE "regex" :> p_data.regex)

\* The loop of Save All Parameters over the rows up to the i-th: the
\* repository it leaves in memory. A row with no name is skipped, a row
\* whose name the repository has (from before or from an earlier row) is
\* refused.
RECURSIVE BulkSaved(_, _, _)
BulkSaved(repo_data, bulk_params, i) ==
    IF i = 0 THEN repo_data
    ELSE LET before == BulkSaved(repo_data, bulk_params, i - 1)
             p_data == bulk_params[i]
         IN  IF p_data.name = "" \/ p_data.name \in DOMAIN before THEN before
             ELSE DictSet(before, p_data.name, new_param(p_data))

\* What the operator may enter in the bulk form.
GBulkRow(name, type, mode) ==
    [name |-> name, type |-> type, category |-> S_Empty, mode |-> mode,
     value |-> IF type = T_number THEN PyFloat(3 * Scale)
               ELSE PyStr(<<"a", "b", "c">>),
     regex |-> R1, description |-> D1,
     nested |-> <<("key" :> "qty") @@ ("type" :> T_number) @@ ("mode" :> "Value")
                  @@ ("value" :> PyStr(<<"3">>)) @@ ("regex" :> S_Empty)
                  @@ ("description" :> S_Empty),
                  ("key" :> "sku") @@ ("type" :> T_string) @@ ("mode" :> "Regex")
                  @@ ("value" :> S_Empty) @@ ("regex" :> R1)
                  @@ ("description" :> S_Empty),
                  ("key" :> "") @@ ("type" :> T_string) @@ ("mode" :> "Value")
                  @@ ("value" :> S_Empty) @@ ("regex" :> S_Empty)
                  @@ ("description" :> S_Empty)>>]

GBulkForms ==
    {<<GBulkRow("x", T_string, "Value")>>,
     <<GBulkRow("x", T_number, "Regex")>>,
     <<GBulkRow("x", T_array, "Value")>>,
     <<GBulkRow("p", T_string, "Value"), GBulkRow("", T_string, "Value")>>,
     <<GBulkRow("y", T_number, "Value"), GBulkRow("y", T_array, "Value")>>}

\* The Save All Parameters button of newParamBuilder.
SaveAllParameters(bulk_params, writeFails) ==
    /\ LET after == BulkSaved(repo, bulk_params, Len(bulk_params))
           saved == DOMAIN after \ DOMAIN repo
       IN  /\ repo' = after
           /\ stored' = IF saved # {} THEN writeRepoToJson(after, writeFails)
                        ELSE stored
           /\ last' = [GIdle EXCEPT !.op = "save_all_parameters",
                                    !.saved = saved,
                                    !.written = saved # {} /\ ~writeFails]
    /\ UNCHANGED <<bucket, synced, pending, cache, event_name, schema>>

GFailing == {{}, {"s1.json"}}

\* The edits of q: one is enough to have a second parameter edited.
GQEdits == {e \in GEdits : e.mode = "Regex Pattern"}

\* The calls of the dry run: document, parameter, draft, failing read.
GDryRuns ==
    {<<n, "p", e, FALSE>> : n \in DocNames, e \in {x \in GEdits : x.new_type = T_string}}
    \cup {<<"s1.json", "q", e, FALSE>> : e \in GQEdits}
    \cup {<<"s2.json", "p", e, rf>> : e \in {x \in GEdits : x.new_type = T_array},
                                      rf \in BOOLEAN}

\* The operator presses at most MaxOps buttons in a session.
MaxOps == 3

Tick == ops < MaxOps /\ ops' = ops + 1 /\ pool' = pool

GNext ==
    \/ /\ Tick
       /\ \E prm \in {"p", "q"}, edit \in GEdits, failing \in GFailing, wf \in BOOLEAN :
             /\ prm = "q" => edit \in GQEdits
             /\ failing \subseteq Range(FullNames(find_impacted_schemas(prm, repo)))
             /\ EditSubmit(prm, edit, failing, wf)
    \/ /\ Tick
       /\ \E sel \in SUBSET DocNames, failing \in GFailing, wf \in BOOLEAN :
             Confirm(sel, failing, wf)
    \/ Tick /\ Cancel
    \/ /\ Tick
       /\ \E call \in GDryRuns :
             RebuildSchemaDryRun(call[1], call[2], call[3], call[4])
    \/ /\ Tick
       /\ \E typed \in EventNames, rf \in BOOLEAN : RenderBuilder(typed, rf)
    \/ /\ Tick
       /\ \E prm \in {"p", "q"}, wf \in BOOLEAN : AddSelectedParameter(prm, wf)
    \/ /\ Tick
       /\ \E uf \in BOOLEAN : SendToGCP(uf, FALSE)
    \/ /\ Tick
       /\ \E refresh \in BOOLEAN, rf \in BOOLEAN :
             /\ rf => refresh
             /\ RenderExplorer(refresh, rf)
    \/ /\ Tick
       /\ \E form \in GBulkForms, wf \in BOOLEAN : SaveAllParameters(form, wf)

GatewaySpec == GInit /\ [][GNext]_vars

\* ------------------------------------------- calls of the constructor

\* Raw values a parameter of repo.json may carry.
CValues ==
    {PyNone, S_Empty, PyStr(<<" ">>), S_Any, PyList(<<>>),
     PyStr(<<"a", "b", "c">>), PyStr(<<"3">>), PyStr(<<"3", ".", "5">>),
     PyStr(<<"T", "R", "U", "E">>), PyStr(<<"m", "a", "y", "b", "e">>),
     PyInt(3), PyBool(TRUE)}

CRegexes == {PyNone, S_Empty, R1}

\* nestedSchema dicts of repo.json: entries with and without the keys of a
\* top-level parameter, with a list for a value, and the empty dict.
CNested ==
    {<<>>,
     ("qty" :> (("type" :> T_number) @@ ("value" :> PyStr(<<"3">>))
                @@ ("description" :> D1) @@ ("category" :> S_Empty)
                @@ ("usedInSchemas" :> <<"s1">>)))
     @@ ("sku" :> (("type" :> T_string) @@ ("regex" :> R1))),
     ("qty" :> (("type" :> T_number) @@ ("value" :> PyList(<<>>))))}

CParams ==
    {("type" :> t) @@ ("description" :> D1) @@ v @@ r @@ n :
        t \in ScalarTypes \cup {T_array},
        v \in Opt("value", CValues),
        r \in Opt("regex", CRegexes),
        n \in Opt("nestedSchema", CNested)}

\* A repository holding the one parameter p, before any call.
CInit ==
    /\ \E param \in CParams : repo = ("p" :> param)
    /\ stored = repo
    /\ bucket = <<>>
    /\ synced = {}
    /\ last = GIdle
    /\ pending = NoPending
    /\ cache = NoCache
    /\ event_name = ""
    /\ schema = <<>>
    /\ ops = 0
    /\ pool = NoPool

\* construct_schema_definition(repo[param_name]).
ConstructSchemaDefinition(param_name) ==
    /\ param_name \in DOMAIN repo
    /\ last' = [GIdle EXCEPT !.op = "construct_schema_definition",
                             !.name = param_name,
                             !.draft = repo[param_name],
                             !.new = construct_schema_definition(repo[param_name])]
    /\ UNCHANGED <<repo, bucket, synced, stored, pending, cache, event_name, schema, ops,
                   pool>>

CNext == \E param_name \in ParamNames : ConstructSchemaDefinition(param_name)

ConstructSpec == CInit /\ [][CNext]_vars

\* ------------------------------------------------- the pool of parallel reads

\* A batch has at most MaxBatch names.
MaxBatch == 3

\* The names a batch may ask for: the stored documents and a name with no
\* blob.
BatchNames == {"s1.json", "s2.json", "gone"}

\* The lists of names of a batch; a name may be there twice.
Batches == UNION {[1..n -> BatchNames] : n \in 0..MaxBatch}

\* The session of a batch starts like a session of the gateway.
PInit == GInit

\* with ThreadPoolExecutor(max_workers=10) as executor: executor.map(...)
\* submits one fetch per entry of schema_names; failing are the names whose
\* download raises or times out.
SubmitBatch(schema_names, failing) ==
    /\ ~pool.active
    /\ failing \subseteq Range(schema_names)
    /\ pool' = [NoPool EXCEPT !.active = TRUE, !.schema_names = schema_names,
                              !.failing = failing,
                              !.futures = [i \in 1..Len(schema_names) |-> <<>>]]
    /\ UNCHANGED <<repo, bucket, synced, last, stored, pending, cache, event_name,
                   schema, ops>>

\* One worker finishes readSchemaToJson(schema_names[i]): the result goes
\* to the future of position i. The workers finish in any order.
WorkerCompletes(i) ==
    /\ pool.active /\ ~pool.returned
    /\ i \in 1..Len(pool.schema_names)
    /\ i \notin Range(pool.completed)
    /\ LET schema_name == pool.schema_names[i]
           schema_data == readSchemaToJson(schema_name, schema_name \in pool.failing)
       IN  pool' = [pool EXCEPT !.futures[i] = schema_data,
                                !.completed = Append(pool.completed, i)]
    /\ UNCHANGED <<repo, bucket, synced, last, stored, pending, cache, event_name,
                   schema, ops>>

\* Mutant of MapResults: the results in the order the workers finished.
MapResults_AsCompleted(p) ==
    [k \in 1..Len(p.completed) |-> p.futures[p.completed[k]]]

\* list(executor.map(readSchemaToJson, schema_names)): the results in the
\* order of schema_names.
MapResults(p) ==
    [k \in 1..Len(p.schema_names) |-> p.futures[k]]

\* dict(zip(keys, values)): a later pair of the same key wins.
RECURSIVE DictZip(_, _, _)
DictZip(keys, values, n) ==
    IF n = 0 THEN <<>>
    ELSE (keys[n] :> values[n]) @@ DictZip(keys, values, n - 1)

\* The with block ends when every fetch has finished, and
\* read_schemas_parallel returns dict(zip(schema_names, results)).
ReturnBatch ==
    /\ pool.active /\ ~pool.returned
    /\ Len(pool.completed) = Len(pool.schema_names)
    /\ LET results == MapResults(pool)
           out == DictZip(pool.schema_names, results, Len(results))
       IN  /\ pool' = [pool EXCEPT !.returned = TRUE, !.out = out]
           /\ last' = [GIdle EXCEPT !.op = "read_schemas_parallel",
                                    !.docs = DOMAIN out, !.failed = pool.failing]
    /\ UNCHANGED <<repo, bucket, synced, stored, pending, cache, event_name, schema, ops>>

PNext ==
    \/ \E schema_names \in Batches, failing \in SUBSET BatchNames :
          SubmitBatch(schema_names, failing)
    \/ \E i \in 1..MaxBatch : WorkerCompletes(i)
    \/ ReturnBatch

ParallelSpec == PInit /\ [][PNext]_vars

\* ------------------------------------------------------------ claim helpers

\* Python's == on two field definitions (dicts of scalars, nestedSchema a
\* dict of such dicts).
PyScalarDictEq(a, b) ==
    /\ DOMAIN a = DOMAIN b
    /\ \A key \in DOMAIN a : PyEq(a[key], b[key])

PyFieldEq(a, b) ==
    /\ DOMAIN a = DOMAIN b
    /\ \A key \in DOMAIN a :
          IF key = "nestedSchema"
          THEN /\ DOMAIN a[key] = DOMAIN b[key]
               /\ \A nk \in DOMAIN a[key] : PyScalarDictEq(a[key][nk], b[key][nk])
          ELSE PyEq(a[key], b[key])

\* The fields of a document that the health check and the resync look at:
\* not reserved, and known to the repository.
Shared(doc) == (DOMAIN doc \cap DOMAIN repo) \ Reserved

Checked == last.op = "check_schema_health"
Resynced == last.op = "update_schema_full" /\ last.ok

\* The names the health check returned.
Reported == Range(last.report.items)

\* The names the explorer reads from the two buckets of the report.
Critical == Range(HealthBucket(last.report, "critical"))
Minor == Range(HealthBucket(last.report, "minor"))

Expected(f) == construct_schema_definition(repo[f])

\* A string that float() reads as NaN.
ReadsAsNaN(v) == IsStr(v) /\ FloatParse(v.s).ok /\ FloatParse(v.s).v = PyNaN

\* --------------------------------------------------------------------- C1

\* C1 (as claimed): a full resync of a document that a full resync against
\* the same repository already wrote reports changed = false and writes
\* nothing.
C1_ResyncIdempotent ==
    (last.op = "update_schema_full" /\ last.wasSynced /\ last.read)
        => (~last.ok /\ ~last.uploaded)

\* What does hold of the second run: the content it uploads is the content
\* it read.
ResyncContentFixpoint ==
    (Resynced /\ last.wasSynced) => last.attempt = last.before

\* --------------------------------------------------------------------- C2

C3_TypeMismatchIsCritical ==
    Checked => \A f \in Shared(last.before) :
        ~PyEq(Get(last.before[f], "type"), Get(Expected(f), "type"))
            => f \in Critical

\* What does hold: such a field is in the flat list the health check returns.
FlatTypeMismatchReported ==
    Checked => \A f \in Shared(last.before) :
        ~PyEq(Get(last.before[f], "type"), Get(Expected(f), "type"))
            => f \in Reported

\* --------------------------------------------------------------------- C4

\* C4 (as claimed): the report has a critical and a minor bucket, and every
\* drifting name is in exactly one of them, once.
C4_ExactlyOneBucket ==
    Checked =>
        /\ last.report.kind = "dict"
        /\ \A f \in Reported : (f \in Critical) # (f \in Minor)

\* What does hold: no name is reported twice.
FlatNoDuplicates ==
    Checked => \A i, j \in 1..Len(last.report.items) :
        last.report.items[i] = last.report.items[j] => i = j

\* --------------------------------------------------------------------- C5

\* The two values differ after None, "" and "Any" become Absent and, for
\* type number, both sides are coerced to numbers.
Absentised(v) == IF v = PyNone \/ v = S_Empty \/ v = S_Any THEN PyNone ELSE v
AsNumber(v) == IF v # PyNone /\ ToFloat(v).ok THEN ToFloat(v).v ELSE v
NormalisedValuesDiffer(field, expected) ==
    LET a == Absentised(Get(field, "value"))
        b == Absentised(Get(expected, "value"))
    IN  IF Get(field, "type") = T_number
        THEN ~PyEq(AsNumber(a), AsNumber(b))
        ELSE ~PyEq(a, b)

\* A non-array parameter whose document field has its type and description.
SameTypeAndDescription(f) ==
    /\ Get(repo[f], "type") # T_array
    /\ "type" \in DOMAIN last.before[f]
    /\ "description" \in DOMAIN last.before[f]
    /\ last.before[f]["type"] = Expected(f)["type"]
    /\ last.before[f]["description"] = Expected(f)["description"]

\* C5 (as claimed): for a non-array parameter with the same type and
\* description, minor drift is reported exactly when the normalised values
\* differ.
C5_MinorIffValuesDiffer ==
    Checked => \A f \in Shared(last.before) :
        SameTypeAndDescription(f)
            => ((f \in Minor) <=> NormalisedValuesDiffer(last.before[f], Expected(f)))

\* What does hold: the flat list names the field exactly then.
FlatValueDriftReported ==
    Checked => \A f \in Shared(last.before) :
        SameTypeAndDescription(f)
            => ((f \in Reported) <=> NormalisedValuesDiffer(last.before[f], Expected(f)))

\* --------------------------------------------------------------------- C6

NestedNamesOf(d) == IF "nestedSchema" \in DOMAIN d THEN DOMAIN d["nestedSchema"] ELSE {}

\* An array parameter with a nestedSchema, met by a document field of type
\* array, whose nested field names are not those of the parameter.
NestedNamesDiffer(f) ==
    /\ Get(repo[f], "type") = T_array
    /\ "nestedSchema" \in DOMAIN repo[f]
    /\ Get(last.before[f], "type") = T_array
    /\ NestedNamesOf(last.before[f]) # NestedNamesOf(repo[f])

\* C6 (as claimed): such a field is reported as minor drift.
C6_NestedNamesMinor ==
    Checked => \A f \in Shared(last.before) : NestedNamesDiffer(f) => f \in Minor

\* What does hold: the flat list names the field.
FlatNestedNamesReported ==
    Checked => \A f \in Shared(last.before) : NestedNamesDiffer(f) => f \in Reported

\* --------------------------------------------------------------------- C7

\* C7: a raw value of None, "" or "Any" leaves the canonical definition
\* without a value key, for a parameter of any type.
C7_SentinelsAbsent ==
    Resynced => \A f \in Shared(last.before) :
        Absentised(Get(repo[f], "value")) = PyNone
            => "value" \notin DOMAIN last.attempt[f]

C7_Witness ==
    /\ Resynced
    /\ Get(repo["p"], "type") = T_number
    /\ Get(repo["p"], "value") = S_Any
    /\ "value" \notin DOMAIN last.attempt["p"]

\* --------------------------------------------------------------------- C8

\* What the claim says a string raw value of a number becomes.
ClaimedNumber(raw) ==
    IF ~HasDot(raw.s) /\ IntParse(raw.s).ok THEN IntParse(raw.s).v
    ELSE IF HasDot(raw.s) /\ FloatParse(raw.s).ok THEN FloatParse(raw.s).v
    ELSE raw

StoredAs(def, v) == "value" \in DOMAIN def /\ def["value"] = v

IsNumberWithString(param) ==
    Get(param, "type") = T_number /\ IsStr(Get(param, "value"))

\* A string that is empty, blank or "Any".
IsSentinelString(v) == IsStr(v) /\ (Strip(v.s) = <<>> \/ v = S_Any)

ExportsNested(param) ==
    Get(param, "type") = T_array /\ "nestedSchema" \in DOMAIN param

\* C8 (as claimed): for type number every string raw value is stored as an
\* integer, a float or the unchanged raw string, top-level and nested.
C8_NumericAllStrings ==
    Resynced => \A f \in Shared(last.before) :
        /\ IsNumberWithString(repo[f])
              => StoredAs(last.attempt[f], ClaimedNumber(repo[f]["value"]))
        /\ ExportsNested(repo[f]) => \A nk \in DOMAIN repo[f]["nestedSchema"] :
              IsNumberWithString(repo[f]["nestedSchema"][nk])
                  => StoredAs(last.attempt[f]["nestedSchema"][nk],
                              ClaimedNumber(repo[f]["nestedSchema"][nk]["value"]))

\* What the code stores for a string raw value of a number: nothing for a
\* sentinel, the claimed number or raw string otherwise.
NumberStored(param, def) ==
    IF IsSentinelString(param["value"])
    THEN "value" \notin DOMAIN def
    ELSE StoredAs(def, ClaimedNumber(param["value"]))

\* C8 (amended): for type number a string raw value that is not a sentinel
\* (empty, blank or "Any") is stored as an integer, a float or the unchanged
\* raw string, and a sentinel is not stored; top-level and nested alike.
C8_NumericNonSentinel ==
    Resynced => \A f \in Shared(last.before) :
        /\ IsNumberWithString(repo[f]) => NumberStored(repo[f], last.attempt[f])
        /\ ExportsNested(repo[f]) => \A nk \in DOMAIN repo[f]["nestedSchema"] :
              IsNumberWithString(repo[f]["nestedSchema"][nk])
                  => NumberStored(repo[f]["nestedSchema"][nk],
                                  last.attempt[f]["nestedSchema"][nk])

C8_Witness ==
    /\ Resynced
    /\ ExportsNested(repo["p"])
    /\ "qty" \in DOMAIN repo["p"]["nestedSchema"]
    /\ Get(repo["p"]["nestedSchema"]["qty"], "value") = PyStr(<<"3", ".", "5">>)
    /\ StoredAs(last.attempt["p"]["nestedSchema"]["qty"],
                PyFloat(3 * Scale + Scale \div 2))

\* --------------------------------------------------------------------- C9

ClaimedImpacted(param_name) ==
    IF param_name \in DOMAIN repo /\ "usedInSchemas" \in DOMAIN repo[param_name]
    THEN Range(repo[param_name]["usedInSchemas"])
    ELSE {}

\* C9: find_impacted_schemas returns exactly the names in the parameter's
\* usedInSchemas, nothing for an unknown parameter or one without
\* usedInSchemas, and leaves the repository as it was.
C9_FindImpacted ==
    [][last'.op = "find_impacted_schemas"
         => /\ repo' = repo
            /\ Range(last'.impacted) = ClaimedImpacted(last'.name)]_vars

C9_Witness ==
    /\ last.op = "find_impacted_schemas"
    /\ last.name = "q"
    /\ Range(last.impacted) = {"s1.json", "s2.json"}

\* -------------------------------------------------------------------- C10

\* C10: the document a full resync produces has the field names it had; a
\* non-reserved field the repository knows is exactly its canonical
\* definition; every other field is as it was. The stored document is that
\* document when the upload went through.
C10_ResyncFrame ==
    Resynced =>
        /\ DOMAIN last.attempt = DOMAIN last.before
        /\ \A f \in DOMAIN last.before :
              IF f \notin Reserved /\ f \in DOMAIN repo
              THEN last.attempt[f] = Expected(f)
              ELSE last.attempt[f] = last.before[f]
        /\ last.uploaded => bucket[last.name] = last.attempt

C10_Witness ==
    /\ Resynced
    /\ last.uploaded
    /\ "regex" \in DOMAIN last.before["p"]
    /\ bucket[last.name]["p"] = Expected("p")
    /\ bucket[last.name]["p"] # last.before["p"]
    /\ bucket[last.name]["x"] = XField
    /\ bucket[last.name]["version"] = VersionField
    /\ "q" \notin DOMAIN bucket[last.name]

\* -------------------------------------------------------------------- C11

DryRun == last.op = "rebuild_schema_dry_run"

\* The proposed content differs from the original at most at the field of
\* the parameter, which is the canonical definition of the draft when the
\* original has the field.
PatchFrame(original, new, param_name, draft) ==
    /\ DOMAIN new = DOMAIN original
    /\ \A f \in DOMAIN original :
          new[f] = IF f = param_name
                   THEN construct_schema_definition(draft)
                   ELSE original[f]

PatchedValueField ==
    /\ DryRun
    /\ last.impacted[1] \in DOMAIN last.original
    /\ "value" \in DOMAIN last.original[last.impacted[1]]

\* C12: the proposed field keeps the value of the document when the new
\* definition has the type of the document field, and carries the value of
\* the new definition when the type differs.
C12_ValuePreserved ==
    PatchedValueField =>
        LET prm == last.impacted[1]
            old == last.original[prm]
            def == construct_schema_definition(last.draft)
        IN  IF PyEq(Get(def, "type"), Get(old, "type"))
            THEN StoredAs(last.new[prm], old["value"])
            ELSE Get(last.new[prm], "value") = Get(def, "value")

\* -------------------------------------------------------------------- C13

\* C13: for a non-array draft with a description and a non-empty regex the
\* proposed field has the description and the regex of the draft.
C13_MetadataUpdated ==
    (/\ DryRun
     /\ last.impacted[1] \in DOMAIN last.original
     /\ Get(last.draft, "type") # T_array
     /\ "description" \in DOMAIN last.draft
     /\ Truthy(Get(last.draft, "regex")))
    => LET new == last.new[last.impacted[1]]
       IN  /\ Get(new, "description") = last.draft["description"]
           /\ Get(new, "regex") = last.draft["regex"]

\* The description is the part that holds.
DescriptionUpdated ==
    (DryRun /\ last.impacted[1] \in DOMAIN last.original)
    => Get(last.new[last.impacted[1]], "description")
           = GetOr(last.draft, "description", S_Empty)

\* -------------------------------------------------------------------- C14

Submitted == last.op = "edit_submit"

\* The usedInSchemas of a parameter, as a set.
UsageOf(param) ==
    IF "usedInSchemas" \in DOMAIN param THEN Range(param["usedInSchemas"]) ELSE {}

\* The impacted documents of a parameter, by their blob names.
ImpactedDocs(repo_data, param_name) ==
    {FullName(n) : n \in UsageOf(repo_data[param_name])}

\* The step commits the draft at once: the parameter is the draft, the
\* repository is written unless the storage refuses, no document is written
\* and no Pending Change is made.
CommitsAtOnce ==
    /\ last'.direct
    /\ repo' = DictSet(repo, last'.name, last'.draft)
    /\ stored' = IF last'.written THEN repo' ELSE stored
    /\ bucket' = bucket
    /\ pending' = pending

\* The step moves to PendingReview with the documents docs: the Pending
\* Change holds the draft and a pair for each of docs, nothing is written.
MovesToPendingReview(docs) ==
    /\ ~last'.direct
    /\ pending'.present
    /\ pending'.param_name = last'.name
    /\ pending'.draft_param_data = last'.draft
    /\ DOMAIN pending'.map = docs
    /\ repo' = repo /\ stored' = stored /\ bucket' = bucket

\* C14 (as claimed): a save commits at once exactly when the parameter has
\* no impacted document, and otherwise moves to PendingReview with a pair
\* per impacted document.
C14_CommitIffNoImpact ==
    [][last'.op = "edit_submit"
         => IF ImpactedDocs(repo, last'.name) = {}
            THEN CommitsAtOnce
            ELSE MovesToPendingReview(ImpactedDocs(repo, last'.name))]_vars

\* The impacted documents the save could read.
ReadableDocs ==
    {n \in ImpactedDocs(repo, last'.name) : n \in DOMAIN bucket /\ n \notin last'.failed}

\* C14 (amended): a save commits at once exactly when none of the impacted
\* documents can be read, and otherwise moves to PendingReview with a pair
\* per impacted document that could be read.
C14_CommitIffNoneReadable ==
    [][last'.op = "edit_submit"
         => IF ReadableDocs = {}
            THEN CommitsAtOnce
            ELSE MovesToPendingReview(ReadableDocs)]_vars

C14_Witness ==
    /\ Submitted
    /\ ~last.direct
    /\ Range(last.impacted) = {"s1", "s2.json"}
    /\ last.failed = {"s1.json"}
    /\ pending.present
    /\ DOMAIN pending.map = {"s2.json"}
    /\ stored = repo

\* -------------------------------------------------------------------- C15

\* C15: a confirm writes the proposed content of the selected documents
\* (those the storage accepts) and no other document, sets the parameter to
\* the draft and writes the repository (unless the storage refuses),
\* whatever the selection.
C15_ConfirmWritesSelection ==
    [][last'.op = "confirm"
         => /\ last'.selected \subseteq DOMAIN pending.map
            /\ DOMAIN bucket' = DOMAIN bucket \cup (last'.selected \ last'.failed)
            /\ \A n \in DOMAIN bucket' :
                  bucket'[n] = IF n \in last'.selected \ last'.failed
                               THEN pending.map[n].new
                               ELSE bucket[n]
            /\ repo' = DictSet(repo, pending.param_name, pending.draft_param_data)
            /\ stored' = IF last'.written THEN repo' ELSE stored]_vars

C15_Witness ==
    /\ last.op = "confirm"
    /\ last.docs = {"s1.json", "s2.json"}
    /\ last.selected = {"s2.json"}
    /\ last.failed = {}
    /\ last.written
    /\ bucket["s2.json"]["p"] = construct_schema_definition(repo["p"])
    /\ bucket["s1.json"]["p"] = GStaleField
    /\ stored = repo

\* -------------------------------------------------------------------- C16

\* C16: a cancel discards the Pending Change and leaves the repository, in
\* memory and stored, and every document as they are; the submit that made
\* the Pending Change left them as they were, too.
C16_CancelHasNoEffect ==
    [][/\ last'.op = "cancel"
          => /\ pending.present /\ ~pending'.present
             /\ repo' = repo /\ stored' = stored /\ bucket' = bucket
       /\ (last'.op = "edit_submit" /\ pending'.present /\ pending' # pending)
          => repo' = repo /\ stored' = stored /\ bucket' = bucket]_vars

C16_Witness ==
    /\ last.op = "cancel"
    /\ ops = 2
    /\ ~pending.present
    /\ stored = repo
    /\ stored \in {GRepository(pParam, used) : pParam \in GParams, used \in GUsages}
    /\ bucket = GBucket(GStaleField)

\* -------------------------------------------------------------------- C17

\* C17: a Pending Change appears only by an edit submit, changes only by
\* going away in a confirm or a cancel, and none is left after these.
C17_PendingLifecycle ==
    [][/\ (~pending.present /\ pending'.present) => last'.op = "edit_submit"
       /\ (pending.present /\ pending' # pending)
             => last'.op \in {"confirm", "cancel"}
       /\ last'.op \in {"confirm", "cancel"} => ~pending'.present]_vars

\* What holds of it: only these three buttons touch the Pending Change.
PendingTouchedByGateway ==
    [][pending' # pending
         => last'.op \in {"edit_submit", "confirm", "cancel"}]_vars

\* -------------------------------------------------------------------- C18

\* C18: a selected document whose upload failed is named in the errors and
\* is not counted as a success.
C18_FailureReported ==
    last.op = "confirm" =>
        /\ last.success_count = Cardinality(last.selected \ last.failed)
        /\ Len(last.errors) = Cardinality(last.failed)

\* What holds of it: the other documents and the repository are written.
FailureDoesNotStopConfirm ==
    [][(last'.op = "confirm" /\ last'.failed # {})
         => /\ \A n \in last'.selected \ last'.failed :
                  bucket'[n] = pending.map[n].new
            /\ repo' = DictSet(repo, pending.param_name, pending.draft_param_data)
            /\ last'.written => stored' = repo']_vars

\* -------------------------------------------------------------------- C19

\* C19: no name ever leaves the usedInSchemas of a parameter of the stored
\* repository.
C19_UsageOnlyGrows ==
    [][\A prm \in DOMAIN stored :
          /\ prm \in DOMAIN stored'
          /\ UsageOf(stored[prm]) \subseteq UsageOf(stored'[prm])]_vars

\* -------------------------------------------------------------------- C20

\* C20: after an upload from the builder went through, every parameter of
\* the repository that is a non-reserved field of the document has the
\* document among its impacted documents.
C20_UsageRecordedOnBuild ==
    (last.op = "send_to_gcp" /\ last.written)
    => \A prm \in DOMAIN repo \cap (DOMAIN bucket[last.name] \ Reserved) :
          last.name \in ImpactedDocs(repo, prm)

\* -------------------------------------------------------------------- C21

\* The shape of a repository parameter: an array has a nestedSchema and
\* neither value nor regex, any other type has no nestedSchema.
ParameterShape(param) ==
    IF Get(param, "type") = T_array
    THEN /\ "nestedSchema" \in DOMAIN param
         /\ "value" \notin DOMAIN param
         /\ "regex" \notin DOMAIN param
    ELSE "nestedSchema" \notin DOMAIN param

\* The parameters a step of the gateway puts into the repository.
WrittenParams ==
    CASE last'.op = "edit_submit" /\ last'.direct -> {last'.name}
      [] last'.op = "confirm" -> {last'.name}
      [] last'.op = "save_all_parameters" -> last'.saved
      [] OTHER -> {}

\* C21: every parameter an edit save (direct or confirmed) or a bulk
\* creation puts into the repository, in memory and in storage, has the
\* shape of its type.
C21_ParameterShape ==
    [][\A prm \in WrittenParams :
          /\ prm \in DOMAIN repo' /\ ParameterShape(repo'[prm])
          /\ last'.written => (prm \in DOMAIN stored' /\ ParameterShape(stored'[prm]))]_vars

C21_Witness ==
    /\ last.op = "save_all_parameters"
    /\ last.saved = {"x"}
    /\ last.written
    /\ Get(stored["x"], "type") = T_array
    /\ DOMAIN stored["x"]["nestedSchema"] = {"qty", "sku"}
    /\ "value" \notin DOMAIN stored["x"]
    /\ Get(stored["p"], "type") = T_array
    /\ DOMAIN stored["p"]["nestedSchema"] = {"qty"}
    /\ "value" \notin DOMAIN stored["p"]

\* -------------------------------------------------------------------- C22

Constructed == last.op = "construct_schema_definition"

\* The Absent sentinels of the claim: None, "", "Any" and the empty list.
IsClaimedSentinel(raw) ==
    raw = PyNone \/ raw = S_Empty \/ raw = S_Any \/ raw = PyList(<<>>)

\* normalize(raw, type) is Absent, as the claim has it: a sentinel, or for
\* a boolean a string that is neither "true" nor "false" in any case.
ClaimedAbsent(raw, type) ==
    \/ IsClaimedSentinel(raw)
    \/ type = T_boolean /\ IsStr(raw) /\ CastBoolean(raw) = PyNone

\* C22: the definition has type and description, and has a value key
\* exactly when the raw value does not normalise to Absent.
C22_ValueIffNotAbsent ==
    Constructed =>
        /\ {"type", "description"} \subseteq DOMAIN last.new
        /\ "value" \in DOMAIN last.new
              <=> ~ClaimedAbsent(Get(last.draft, "value"), Get(last.draft, "type"))

\* What holds of it: type and description are always there, and the value
\* key is there exactly when the raw value is neither None, nor an empty or
\* blank string, nor "Any", nor an unreadable boolean string; the empty
\* list is stored.
ValueIffUsable ==
    Constructed =>
        LET raw == Get(last.draft, "value")
        IN  /\ {"type", "description"} \subseteq DOMAIN last.new
            /\ "value" \in DOMAIN last.new
                  <=> ~(\/ raw = PyNone
                        \/ IsSentinelString(raw)
                        \/ /\ Get(last.draft, "type") = T_boolean
                           /\ IsStr(raw) /\ CastBoolean(raw) = PyNone)

\* -------------------------------------------------------------------- C23

\* C23: a parameter that is no array, has no usable value and has a regex
\* that is not empty, gets that regex in its definition.
C23_RegexEmitted ==
    (/\ Constructed
     /\ Get(last.draft, "type") # T_array
     /\ "value" \notin DOMAIN last.new
     /\ Truthy(Get(last.draft, "regex")))
    => Get(last.new, "regex") = last.draft["regex"]

\* What holds instead: no definition has a top-level regex.
NoTopLevelRegex == Constructed => "regex" \notin DOMAIN last.new

\* -------------------------------------------------------------------- C25

\* C25: the definition of an array has neither a top-level value nor a
\* top-level regex; its nestedSchema has the nested names of the parameter
\* and no entry of it has category or usedInSchemas.
C25_ArrayShape ==
    (Constructed /\ Get(last.draft, "type") = T_array)
    => /\ "value" \notin DOMAIN last.new
       /\ "regex" \notin DOMAIN last.new
       /\ "nestedSchema" \in DOMAIN last.draft
             => /\ DOMAIN last.new["nestedSchema"] = DOMAIN last.draft["nestedSchema"]
                /\ \A nk \in DOMAIN last.new["nestedSchema"] :
                      DOMAIN last.new["nestedSchema"][nk]
                          \cap {"category", "usedInSchemas"} = {}

\* What holds of it: all but the value.
ArrayNestedShape ==
    (Constructed /\ Get(last.draft, "type") = T_array)
    => /\ "regex" \notin DOMAIN last.new
       /\ "nestedSchema" \in DOMAIN last.draft
             => /\ DOMAIN last.new["nestedSchema"] = DOMAIN last.draft["nestedSchema"]
                /\ \A nk \in DOMAIN last.new["nestedSchema"] :
                      DOMAIN last.new["nestedSchema"][nk]
                          \subseteq {"type", "description", "regex", "value"}

\* -------------------------------------------------------------------- C26

\* C26: no definition stores the empty list as a value, top-level or nested.
C26_EmptyListAbsent ==
    Constructed =>
        /\ Get(last.new, "value") # PyList(<<>>)
        /\ "nestedSchema" \in DOMAIN last.new
              => \A nk \in DOMAIN last.new["nestedSchema"] :
                    Get(last.new["nestedSchema"][nk], "value") # PyList(<<>>)

\* -------------------------------------------------------------------- C24

\* The repository parameter carries a regex that the document field, of the
\* same type, description and value, does not have.
RegexDrift(f) ==
    /\ Truthy(Get(repo[f], "regex"))
    /\ SameTypeAndDescription(f)
    /\ ~NormalisedValuesDiffer(last.before[f], Expected(f))
    /\ Get(last.before[f], "regex") # repo[f]["regex"]

\* C24: a field whose only drift is the regex is reported as minor drift.
C24_RegexDriftIsMinor ==
    Checked => \A f \in Shared(last.before) : RegexDrift(f) => f \in Minor

\* What holds instead: such a field is not reported at all.
RegexDriftUnreported ==
    Checked => \A f \in Shared(last.before) : RegexDrift(f) => f \notin Reported

\* -------------------------------------------------------------------- C27

\* C27: every name the health check reports is a field of the document
\* that is not reserved and that the repository knows.
C27_ReportedAreShared ==
    Checked => /\ Reported \cap Reserved = {}
               /\ Reported \subseteq DOMAIN last.before \cap DOMAIN repo

C27_Witness ==
    /\ Checked
    /\ Reported = {"p"}
    /\ "version" \in DOMAIN repo \cap DOMAIN last.before
    /\ last.before["version"]["type"] # Expected("version")["type"]
    /\ "x" \in DOMAIN last.before \ DOMAIN repo

\* -------------------------------------------------------------------- C28

\* C28: a resync whose upload fails returns a failure with a message, and
\* a resync that cannot read the document returns a failure and writes
\* nothing.
C28_StorageFailureSurfaced ==
    [][last'.op = "update_schema_full"
         => /\ (DOMAIN last'.attempt # {} /\ ~last'.uploaded)
                  => (~last'.ok /\ last'.msgs # <<>>)
            /\ ~last'.read
                  => (~last'.ok /\ last'.msgs # <<>> /\ bucket' = bucket)]_vars

\* What holds of it: the failed read.
ReadFailureSurfaced ==
    [][(last'.op = "update_schema_full" /\ ~last'.read)
         => (~last'.ok /\ last'.msgs # <<>> /\ bucket' = bucket)]_vars

\* -------------------------------------------------------------------- C30

\* The health map of the cache is the health of the cached documents
\* against the repository of the session.
CacheConsistent(c, repo_data) ==
    c.health = HealthMap(c.schemas, repo_data)

\* C30: whenever the explorer cache is populated, its health map has the
\* names of the cached documents as keys and every entry is the health of
\* the cached content against the repository of the session.
C30_CacheConsistent ==
    (cache.present /\ DOMAIN cache.schemas # {}) => CacheConsistent(cache, repo)

\* What holds instead: the cache is consistent after the operations that
\* synchronise it, which are the direct commit of an edit, the confirmed
\* edit and the run of the explorer that fills it.
SyncedOperationsConsistent ==
    [][(/\ cache'.present
        /\ \/ last'.op = "edit_submit" /\ last'.direct
           \/ last'.op = "confirm"
           \/ last'.op = "render_explorer" /\ cache' # cache)
         => CacheConsistent(cache', repo')]_vars

\* -------------------------------------------------------------------- C29

\* A batch of reads has returned.
BatchReturned == pool.active /\ pool.returned

\* C29: the mapping a batch returns has exactly the requested names as
\* keys, and the entry of a name is the stored document, or the empty
\* mapping when its fetch failed or it has no blob: whatever the order in
\* which the fetches finished, and whatever happened to the other names.
C29_ParallelReadsIsolated ==
    BatchReturned =>
        /\ DOMAIN pool.out = Range(pool.schema_names)
        /\ \A n \in DOMAIN pool.out :
              pool.out[n] = IF n \in pool.failing \/ n \notin DOMAIN bucket
                            THEN <<>> ELSE bucket[n]

\* Two documents, the second fetch finished first, one fetch failed and the
\* other returned a stored document.
C29_Witness ==
    /\ BatchReturned
    /\ Len(pool.schema_names) >= 2
    /\ pool.completed[1] # 1
    /\ \E n \in DOMAIN pool.out : n \in pool.failing /\ pool.out[n] = <<>>
    /\ \E n \in DOMAIN pool.out : n \notin pool.failing /\ DOMAIN pool.out[n] # {}

====
